---------------------------- MODULE Spec2Model ----------------------------
(***************************************************************************)
(* Model of src/src/custom_transformers.py: the fit/transform units        *)
(* AreaFeatureSelector, RareCategoryGrouper, BooleanNormalizer and         *)
(* OutlierClipper.                                                         *)
(*                                                                         *)
(* A behaviour follows ONE unit instance: Init is the state right after    *)
(* its constructor returned, and every step is one complete call of fit    *)
(* or transform on that instance with a table chosen by the caller.        *)
(*                                                                         *)
(* Tables (pandas.DataFrame) are records [rows, cols]: rows is the length  *)
(* of the index, cols maps each column name that is present to a sequence  *)
(* of rows cells.  A cell is <<>> when it is missing (NaN) and <<v>> when   *)
(* it holds the value v.                                                   *)
(***************************************************************************)
EXTENDS Integers, Sequences, FiniteSets, TLC

VARIABLES
    cls,    \* class of the instance this behaviour follows
    self,   \* the instance's attributes (configuration and fitted state)
    X,      \* the caller's table object as it is after the last call
    call,   \* the last call: [op, arg], arg being the table that was passed
    ret,    \* how the last call ended: [status, exc, value]
    fits    \* fit calls made on the instance so far: "none", "once" or "again"

vars == <<cls, self, X, call, ret, fits>>

---------------------------------------------------------------------------
(* Bounds of the model *)

MaxRows == 2

\* rows of the enumerated tables that hold a second column
MaxRowsWide == MaxRows - 1

---------------------------------------------------------------------------
(* Cells, tables and results *)

NaN == <<>>

Cell(v) == <<v>>

isna(c) == c = NaN

EmptyDict == [k \in {} |-> {}]

\* d[k] = v of a Python dict d
DictSet(d, k, v) == [x \in (DOMAIN d) \cup {k} |-> IF x = k THEN v ELSE d[x]]

Range(s) == {s[i] : i \in 1..Len(s)}

Table(n, f) == [rows |-> n, cols |-> f]

\* every cell of T is one of the values of its column
WellTyped(T, vals) == \A c \in DOMAIN T.cols : \A i \in 1..T.rows : T.cols[c][i] \in vals[c]

\* every table of at most maxrows rows over the columns cs whose column c draws
\* its cells from vals[c]
TablesOver(cs, vals, maxrows) ==
    UNION {{T \in {Table(n, f) : f \in [cs -> UNION {[1..n -> vals[c]] : c \in cs}]} :
               WellTyped(T, vals)} : n \in 0..maxrows}

NoCall == [op |-> "__init__"]

NoTable == Table(0, EmptyDict)

\* ret.value is the table a transform returned; fit returns the instance itself
\* and its ret.value is NoTable
Returned(v) == [status |-> "return", exc |-> "none", value |-> v]

Raised(e) == [status |-> "raise", exc |-> e, value |-> NoTable]

CountFit(n) == IF n = "none" THEN "once" ELSE "again"

---------------------------------------------------------------------------
(* RareCategoryGrouper *)

\* min_frequency is a fraction [num, den]; the float comparisons of the source
\* are exact on the fractions used here
Frac(n, d) == [num |-> n, den |-> d]

\* mutant: the threshold taken as exclusive (freq > self.min_frequency)
FracGT(a, b) == a.num * b.den > b.num * a.den

FracGE(a, b) == a.num * b.den >= b.num * a.den

\* Series.value_counts(normalize=True): dropna=True, so missing cells are
\* neither counted nor indexed; each distinct value maps to count / non-missing
value_counts(col) ==
    LET present == {i \in 1..Len(col) : ~isna(col[i])}
    IN  [v \in {col[i] : i \in present} |->
            Frac(Cardinality({i \in present : col[i] = v}), Cardinality(present))]

\* freq[freq >= self.min_frequency].index.tolist(), kept as the set isin reads
FrequentOf(freq, min_frequency) == {v \in DOMAIN freq : FracGE(freq[v], min_frequency)}

\* Series.isin(values)
isin(c, values) == c \in values

\* mutant: the replacement left out, every cell kept
where_keep(c, cond, other) == c

\* Series.where(cond, other="Other") on one cell
where(c, cond, other) == IF cond THEN c ELSE other

RareCategoryGrouper_init(columns, min_frequency) ==
    [columns |-> columns, min_frequency |-> min_frequency,
     frequent_categories_ |-> EmptyDict]

\* the loop of fit from column i on; X[col] of an absent column raises KeyError
\* and leaves what earlier iterations stored
RECURSIVE RCG_fit_loop(_, _, _)
RCG_fit_loop(obj, T, i) ==
    IF i > Len(obj.columns) THEN [self |-> obj, ret |-> Returned(NoTable)]
    ELSE LET col == obj.columns[i]
         IN  IF col \notin DOMAIN T.cols THEN [self |-> obj, ret |-> Raised("KeyError")]
             ELSE LET freq == value_counts(T.cols[col])
                      kept == FrequentOf(freq, obj.min_frequency)
                  IN  RCG_fit_loop(
                          [obj EXCEPT !.frequent_categories_ = DictSet(@, col, kept)],
                          T, i + 1)

\* mutant: fit adds to the sets an earlier fit stored instead of replacing them
RCG_fit_merge(obj, T) ==
    LET r   == RCG_fit_loop(obj, T, 1)
        old == obj.frequent_categories_
    IN  [self |-> [r.self EXCEPT !.frequent_categories_ =
                      [c \in DOMAIN @ |-> @[c] \cup (IF c \in DOMAIN old THEN old[c] ELSE {})]],
         X |-> T, ret |-> r.ret]

\* RareCategoryGrouper.fit(X): works on a copy of X, returns self
RCG_fit(obj, T) ==
    LET r == RCG_fit_loop(obj, T, 1)
    IN  [self |-> r.self, X |-> T, ret |-> r.ret]

\* the loop of transform from column i on, C being the copy made at entry
RECURSIVE RCG_transform_loop(_, _, _)
RCG_transform_loop(obj, C, i) ==
    IF i > Len(obj.columns) THEN Returned(C)
    ELSE LET col == obj.columns[i]
         IN  IF col \notin DOMAIN C.cols \/ col \notin DOMAIN obj.frequent_categories_
             THEN Raised("KeyError")
             ELSE LET s == C.cols[col]
                      new == [r \in 1..C.rows |->
                                 where(s[r], isin(s[r], obj.frequent_categories_[col]),
                                       Cell("Other"))]
                  IN  RCG_transform_loop(obj, [C EXCEPT !.cols[col] = new], i + 1)

\* mutant: transform without X.copy(), writing into the caller's table
RCG_transform_inplace(obj, T) ==
    LET done == RCG_transform_loop(obj, T, 1)
    IN  [self |-> obj, X |-> IF done.status = "return" THEN done.value ELSE T, ret |-> done]

\* RareCategoryGrouper.transform(X): works on a copy of X
RCG_transform(obj, T) ==
    [self |-> obj, X |-> T, ret |-> RCG_transform_loop(obj, T, 1)]

CatValues == [c \in {"City", "Type"} |->
                 IF c = "City" THEN {Cell("A"), Cell("B"), NaN} ELSE {Cell("X")}]

ExampleFitTable ==
    Table(6, [c \in {"City"} |->
        <<Cell("A"), Cell("A"), Cell("A"), Cell("B"), Cell("B"), Cell("C")>>])

ExampleTransformTable ==
    Table(4, [c \in {"City"} |-> <<Cell("A"), Cell("B"), Cell("C"), Cell("D")>>])

\* a table that already holds the replacement category, beside a missing cell
OtherTable ==
    Table(3, [c \in {"City"} |-> <<Cell("Other"), NaN, Cell("A")>>])

OtherRareTable ==
    Table(4, [c \in {"City"} |-> <<Cell("A"), Cell("A"), Cell("A"), Cell("Other")>>])

CatTables ==
    TablesOver({"City"}, CatValues, MaxRows)
        \cup TablesOver({"City", "Type"}, CatValues, MaxRowsWide)
        \cup TablesOver({"Type"}, CatValues, MaxRowsWide)
        \cup {ExampleFitTable, ExampleTransformTable, OtherTable, OtherRareTable}

RCG_Columns == {<<"City">>, <<"City", "Type">>}

RCG_MinFrequency == {Frac(1, 100), Frac(1, 5), Frac(1, 2)}

InitRCG ==
    /\ cls = "RareCategoryGrouper"
    /\ \E columns \in RCG_Columns, min_frequency \in RCG_MinFrequency :
           self = RareCategoryGrouper_init(columns, min_frequency)
    /\ X = NoTable
    /\ call = NoCall
    /\ ret = Returned(NoTable)
    /\ fits = "none"

RareCategoryGrouper_fit ==
    /\ cls = "RareCategoryGrouper"
    /\ \E T \in CatTables :
           \E r \in {RCG_fit(self, T)} :
               /\ self' = r.self
               /\ X' = r.X
               /\ ret' = r.ret
               /\ call' = [op |-> "fit", arg |-> T]
    /\ fits' = CountFit(fits)
    /\ UNCHANGED cls

RareCategoryGrouper_transform ==
    /\ cls = "RareCategoryGrouper"
    /\ \E T \in CatTables :
           \E r \in {RCG_transform(self, T)} :
               /\ self' = r.self
               /\ X' = r.X
               /\ ret' = r.ret
               /\ call' = [op |-> "transform", arg |-> T]
    /\ UNCHANGED <<cls, fits>>

NextRCG == RareCategoryGrouper_fit \/ RareCategoryGrouper_transform

SpecRCG == InitRCG /\ [][NextRCG]_vars

---------------------------------------------------------------------------
(* OutlierClipper *)

\* Numbers are held in hundredths (QUnit per unit), and so are the quantile
\* fractions: lower_quantile = 25 stands for 0.25.  The enumerated fit tables
\* hold whole numbers, on which the linear interpolation below is exact.
QUnit == 100

Num(n) == Cell(n * QUnit)

Min(a, b) == IF a <= b THEN a ELSE b

Max(a, b) == IF a >= b THEN a ELSE b

Insert(s, x) ==
    LET k == Cardinality({i \in 1..Len(s) : s[i] <= x})
    IN  SubSeq(s, 1, k) \o <<x>> \o SubSeq(s, k + 1, Len(s))

RECURSIVE Sort(_)
Sort(s) == IF s = <<>> THEN <<>> ELSE Insert(Sort(Tail(s)), Head(s))

\* the non-missing values of a column, ascending
SortedValues(col) ==
    LET RECURSIVE Values(_)
        Values(c) == IF c = <<>> THEN <<>>
                     ELSE IF isna(Head(c)) THEN Values(Tail(c))
                     ELSE <<Head(c)[1]>> \o Values(Tail(c))
    IN  Sort(Values(col))

\* validate_percentile: a fraction outside [0, 1] raises ValueError
ValidPercentile(q) == 0 <= q /\ q <= QUnit

\* Series.quantile(q), interpolation="linear", for a valid q: missing cells are
\* skipped; a column without values gives NaN
quantile(col, q) ==
    LET v   == SortedValues(col)
        pos == q * (Len(v) - 1)
        j   == pos \div QUnit
        r   == pos % QUnit
    IN  IF Len(v) = 0 THEN NaN
        ELSE IF r = 0 THEN Cell(v[j + 1])
        ELSE Cell(v[j + 1] + (r * (v[j + 2] - v[j + 1])) \div QUnit)

\* Series.clip(lower, upper) on one cell: a NaN bound is no bound, two scalar
\* bounds given in reverse are swapped, a missing cell stays missing
clip(c, lower, upper) ==
    LET both == ~isna(lower) /\ ~isna(upper)
        lo   == IF both THEN Cell(Min(lower[1], upper[1])) ELSE lower
        hi   == IF both THEN Cell(Max(lower[1], upper[1])) ELSE upper
    IN  IF isna(c) THEN c
        ELSE IF ~isna(lo) /\ c[1] < lo[1] THEN lo
        ELSE IF ~isna(hi) /\ c[1] > hi[1] THEN hi
        ELSE c

OutlierClipper_init(columns, lower_quantile, upper_quantile) ==
    [columns |-> columns, lower_quantile |-> lower_quantile,
     upper_quantile |-> upper_quantile, bounds_ |-> EmptyDict]

\* the loop of fit from column i on; an absent column raises KeyError, a
\* fraction outside [0, 1] raises ValueError, both before bounds_[col] is set
RECURSIVE OC_fit_loop(_, _, _)
OC_fit_loop(obj, T, i) ==
    IF i > Len(obj.columns) THEN [self |-> obj, ret |-> Returned(NoTable)]
    ELSE LET col == obj.columns[i]
         IN  IF col \notin DOMAIN T.cols THEN [self |-> obj, ret |-> Raised("KeyError")]
             ELSE IF ~ValidPercentile(obj.lower_quantile) \/ ~ValidPercentile(obj.upper_quantile)
             THEN [self |-> obj, ret |-> Raised("ValueError")]
             ELSE LET lower == quantile(T.cols[col], obj.lower_quantile)
                      upper == quantile(T.cols[col], obj.upper_quantile)
                  IN  OC_fit_loop(
                          [obj EXCEPT !.bounds_ = DictSet(@, col, <<lower, upper>>)],
                          T, i + 1)

\* OutlierClipper.fit(X): works on a copy of X, returns self
OC_fit(obj, T) ==
    LET r == OC_fit_loop(obj, T, 1)
    IN  [self |-> r.self, X |-> T, ret |-> r.ret]

\* OutlierClipper.transform(X): works on a copy of X and walks the stored
\* bounds, not self.columns; a stored column absent from X raises KeyError
OC_transform(obj, T) ==
    [self |-> obj, X |-> T,
     ret |-> IF \E col \in DOMAIN obj.bounds_ : col \notin DOMAIN T.cols
             THEN Raised("KeyError")
             ELSE Returned([T EXCEPT !.cols =
                      [col \in DOMAIN T.cols |->
                          IF col \in DOMAIN obj.bounds_
                          THEN [r \in 1..T.rows |->
                                   clip(T.cols[col][r], obj.bounds_[col][1], obj.bounds_[col][2])]
                          ELSE T.cols[col]]])]

NumValues == [c \in {"Price", "Area"} |->
                 IF c = "Price" THEN {Num(0), Num(2), NaN} ELSE {Num(50)}]

NumTables ==
    TablesOver({"Price"}, NumValues, MaxRows)
        \cup TablesOver({"Price", "Area"}, NumValues, MaxRowsWide)
        \cup TablesOver({"Area"}, NumValues, MaxRowsWide)

OC_Columns == {<<"Price">>, <<"Price", "Area">>}

\* <<lower_quantile, upper_quantile>>: the defaults, an inner range, a range
\* given in reverse, and an upper fraction above 1
OC_Quantiles == {<<1, 99>>, <<25, 75>>, <<75, 25>>, <<25, 110>>}

InitOC ==
    /\ cls = "OutlierClipper"
    /\ \E columns \in OC_Columns, q \in OC_Quantiles :
           self = OutlierClipper_init(columns, q[1], q[2])
    /\ X = NoTable
    /\ call = NoCall
    /\ ret = Returned(NoTable)
    /\ fits = "none"

OutlierClipper_fit ==
    /\ cls = "OutlierClipper"
    /\ \E T \in NumTables :
           \E r \in {OC_fit(self, T)} :
               /\ self' = r.self
               /\ X' = r.X
               /\ ret' = r.ret
               /\ call' = [op |-> "fit", arg |-> T]
    /\ fits' = CountFit(fits)
    /\ UNCHANGED cls

OutlierClipper_transform ==
    /\ cls = "OutlierClipper"
    /\ \E T \in NumTables :
           \E r \in {OC_transform(self, T)} :
               /\ self' = r.self
               /\ X' = r.X
               /\ ret' = r.ret
               /\ call' = [op |-> "transform", arg |-> T, chained |-> FALSE]
    /\ UNCHANGED <<cls, fits>>

\* the caller passes the table the previous transform returned
OutlierClipper_transform_again ==
    /\ cls = "OutlierClipper"
    /\ call.op = "transform"
    /\ ret.status = "return"
    /\ \E r \in {OC_transform(self, ret.value)} :
     /\ self' = r.self
           /\ X' = r.X
           /\ ret' = r.ret
           /\ call' = [op |-> "transform", arg |-> ret.value, chained |-> TRUE]
    /\ UNCHANGED <<cls, fits>>

NextOC == OutlierClipper_fit \/ OutlierClipper_transform \/ OutlierClipper_transform_again

SpecOC == InitOC /\ [][NextOC]_vars

---------------------------------------------------------------------------
(* AreaFeatureSelector *)

AreaFeatureSelector_init(area_columns) == [area_columns |-> area_columns]

\* bfill along one row: a missing cell takes the next non-missing cell to its
\* right, and stays missing when there is none
RECURSIVE bfill(_)
bfill(row) ==
    IF row = <<>> THEN <<>>
    ELSE LET rest == bfill(Tail(row))
         IN  <<IF isna(Head(row)) /\ rest # <<>> THEN rest[1] ELSE Head(row)>> \o rest

\* mutant: the first listed column taken as it is, without bfill
MainAreaOf_nofill(T, area_columns, r) == T.cols[area_columns[1]][r]

\* X[self.area_columns].bfill(axis=1).iloc[:, 0] at row r
MainAreaOf(T, area_columns, r) ==
    bfill([i \in 1..Len(area_columns) |-> T.cols[area_columns[i]][r]])[1]

\* DataFrame.drop(columns=names)
drop(T, names) ==
    [T EXCEPT !.cols = [c \in (DOMAIN T.cols) \ names |-> T.cols[c]]]

\* AreaFeatureSelector.fit(X): returns self
AFS_fit(obj, T) == [self |-> obj, X |-> T, ret |-> Returned(NoTable)]

\* AreaFeatureSelector.transform(X): works on a copy of X; selecting an absent
\* column raises KeyError
AFS_transform(obj, T) ==
    [self |-> obj, X |-> T,
     ret |-> IF \E c \in Range(obj.area_columns) : c \notin DOMAIN T.cols
             THEN Raised("KeyError")
             ELSE LET main == [r \in 1..T.rows |-> MainAreaOf(T, obj.area_columns, r)]
                      C    == [T EXCEPT !.cols = DictSet(@, "MainArea", main)]
                  IN  Returned(drop(C, Range(obj.area_columns)))]

AreaValues == [c \in {"LivingArea", "TotalArea", "LotArea"} |->
                  IF c = "LivingArea" THEN {Num(40), NaN}
                  ELSE IF c = "TotalArea" THEN {Num(55), NaN}
                  ELSE {Num(300)}]

AreaTables ==
    TablesOver({"LivingArea", "TotalArea", "LotArea"}, AreaValues, MaxRows)
        \cup TablesOver({"LivingArea", "LotArea"}, AreaValues, MaxRowsWide)

AFS_Columns == {<<"LivingArea", "TotalArea", "LotArea">>, <<"TotalArea", "LivingArea">>,
                <<"TotalArea">>}

InitAFS ==
    /\ cls = "AreaFeatureSelector"
    /\ \E area_columns \in AFS_Columns : self = AreaFeatureSelector_init(area_columns)
    /\ X = NoTable
    /\ call = NoCall
    /\ ret = Returned(NoTable)
    /\ fits = "none"

AreaFeatureSelector_fit ==
    /\ cls = "AreaFeatureSelector"
    /\ \E T \in AreaTables :
           \E r \in {AFS_fit(self, T)} :
               /\ self' = r.self
               /\ X' = r.X
               /\ ret' = r.ret
               /\ call' = [op |-> "fit", arg |-> T]
    /\ fits' = CountFit(fits)
    /\ UNCHANGED cls

AreaFeatureSelector_transform ==
    /\ cls = "AreaFeatureSelector"
    /\ \E T \in AreaTables :
           \E r \in {AFS_transform(self, T)} :
               /\ self' = r.self
               /\ X' = r.X
               /\ ret' = r.ret
               /\ call' = [op |-> "transform", arg |-> T]
    /\ UNCHANGED <<cls, fits>>

NextAFS == AreaFeatureSelector_fit \/ AreaFeatureSelector_transform

SpecAFS == InitAFS /\ [][NextAFS]_vars

---------------------------------------------------------------------------
(* BooleanNormalizer *)

\* Values of a boolean-like column are tagged with their Python type by the
\* name of their one field; a string is the sequence of its characters.
PyStr(chars) == [str |-> chars]

PyBool(b) == [bool |-> b]

PyInt(n) == [int |-> n]

PyFloat(n) == [float |-> n]

IsA(x, type) == type \in DOMAIN x

UpperCase == <<"A", "B", "C", "D", "E", "F", "G", "H", "I", "J", "K", "L", "M",
               "N", "O", "P", "Q", "R", "S", "T", "U", "V", "W", "X", "Y", "Z">>

LowerCase == <<"a", "b", "c", "d", "e", "f", "g", "h", "i", "j", "k", "l", "m",
               "n", "o", "p", "q", "r", "s", "t", "u", "v", "w", "x", "y", "z">>

Digits == <<"0", "1", "2", "3", "4", "5", "6", "7", "8", "9">>

\* mutant: the strings compared without lower-casing
str_lower_off(chars) == chars

\* str.lower()
str_lower(chars) ==
    [i \in 1..Len(chars) |->
        IF \E k \in 1..Len(UpperCase) : UpperCase[k] = chars[i]
        THEN LowerCase[CHOOSE k \in 1..Len(UpperCase) : UpperCase[k] = chars[i]]
        ELSE chars[i]]

\* str(n) of a natural number
RECURSIVE NatToStr(_)
NatToStr(n) ==
    IF n < 10 THEN <<Digits[n + 1]>> ELSE NatToStr(n \div 10) \o <<Digits[(n % 10) + 1]>>

\* Series.astype(str) on one cell: a missing cell becomes the string "nan", a
\* whole float keeps its ".0"
astype_str(c) ==
    IF isna(c) THEN <<"n", "a", "n">>
    ELSE IF IsA(c[1], "str") THEN c[1].str
    ELSE IF IsA(c[1], "bool")
         THEN (IF c[1].bool THEN <<"T", "r", "u", "e">> ELSE <<"F", "a", "l", "s", "e">>)
    ELSE IF IsA(c[1], "int") THEN NatToStr(c[1].int)
    ELSE NatToStr(c[1].float) \o <<".", "0">>

true_values == {PyStr(<<"y", "e", "s">>), PyStr(<<"t", "r", "u", "e">>), PyStr(<<"1">>),
                PyInt(1), PyBool(TRUE)}

false_values == {PyStr(<<"n", "o">>), PyStr(<<"f", "a", "l", "s", "e">>), PyStr(<<"0">>),
                 PyInt(0), PyBool(FALSE)}

\* lambda x: 1 if x in true_values else (0 if x in false_values else np.nan)
MapBool(x) ==
    IF x \in true_values THEN Cell(1) ELSE IF x \in false_values THEN Cell(0) ELSE NaN

\* X[col].astype(str).str.lower().map(...) on one cell
NormalizeCell(c) == MapBool(PyStr(str_lower(astype_str(c))))

BooleanNormalizer_init(columns) == [columns |-> columns]

\* BooleanNormalizer.fit(X): returns self
BN_fit(obj, T) == [self |-> obj, X |-> T, ret |-> Returned(NoTable)]

\* BooleanNormalizer.transform(X): works on a copy of X
BN_transform(obj, T) ==
    [self |-> obj, X |-> T,
     ret |-> IF \E c \in Range(obj.columns) : c \notin DOMAIN T.cols
             THEN Raised("KeyError")
             ELSE Returned([T EXCEPT !.cols =
                      [c \in DOMAIN T.cols |->
                          IF c \in Range(obj.columns)
                          THEN [r \in 1..T.rows |-> NormalizeCell(T.cols[c][r])]
                          ELSE T.cols[c]]])]

\* the cells of the enumerated columns, three to a column
BoolPalettes ==
    {{Cell(PyStr(<<"Y", "e", "s">>)), Cell(PyStr(<<"Y", "E", "S">>)),
      Cell(PyStr(<<"y", "e", "s">>))},
     {Cell(PyStr(<<"T", "r", "u", "e">>)), Cell(PyStr(<<"1">>)),
      Cell(PyStr(<<"m", "a", "y", "b", "e">>))},
     {Cell(PyStr(<<"N", "o">>)), Cell(PyStr(<<"n", "o">>)),
      Cell(PyStr(<<"F", "A", "L", "S", "E">>))},
     {Cell(PyStr(<<"0">>)), Cell(PyStr(<<"Y">>)), NaN},
     {Cell(PyBool(TRUE)), Cell(PyBool(FALSE)), NaN},
     {Cell(PyInt(1)), Cell(PyInt(0)), Cell(PyFloat(1))}}

BoolTables ==
    UNION {TablesOver({"HasGarage"}, [c \in {"HasGarage"} |-> P], MaxRows) : P \in BoolPalettes}
        \cup TablesOver({"HasGarage", "City"},
                 [c \in {"HasGarage", "City"} |->
                     IF c = "City" THEN {Cell(PyStr(<<"A">>))}
                     ELSE {Cell(PyStr(<<"Y", "E", "S">>)), NaN}],
                 MaxRowsWide)
        \cup TablesOver({"City"}, [c \in {"City"} |-> {Cell(PyStr(<<"A">>))}], MaxRowsWide)

BN_Columns == {<<"HasGarage">>}

InitBN ==
    /\ cls = "BooleanNormalizer"
    /\ \E columns \in BN_Columns : self = BooleanNormalizer_init(columns)
    /\ X = NoTable
    /\ call = NoCall
    /\ ret = Returned(NoTable)
    /\ fits = "none"

BooleanNormalizer_fit ==
    /\ cls = "BooleanNormalizer"
    /\ \E T \in BoolTables :
           \E r \in {BN_fit(self, T)} :
               /\ self' = r.self
               /\ X' = r.X
               /\ ret' = r.ret
               /\ call' = [op |-> "fit", arg |-> T]
    /\ fits' = CountFit(fits)
    /\ UNCHANGED cls

BooleanNormalizer_transform ==
    /\ cls = "BooleanNormalizer"
    /\ \E T \in BoolTables :
           \E r \in {BN_transform(self, T)} :
               /\ self' = r.self
               /\ X' = r.X
               /\ ret' = r.ret
               /\ call' = [op |-> "transform", arg |-> T]
    /\ UNCHANGED <<cls, fits>>

NextBN == BooleanNormalizer_fit \/ BooleanNormalizer_transform

SpecBN == InitBN /\ [][NextBN]_vars

---------------------------------------------------------------------------
(* Any of the units *)

Init == InitAFS \/ InitRCG \/ InitBN \/ InitOC

Next == NextAFS \/ NextRCG \/ NextBN \/ NextOC

Spec == Init /\ [][Next]_vars

---------------------------------------------------------------------------
(* Claims about RareCategoryGrouper *)

RCG_Transformed ==
    cls = "RareCategoryGrouper" /\ call.op = "transform" /\ ret.status = "return"

RCG_Fitted ==
    cls = "RareCategoryGrouper" /\ call.op = "fit" /\ ret.status = "return"

\* C2: RareCategoryGrouper.transform preserves missing: a cell of a configured
\* column that is missing in the input is missing in the output, and a cell
\* equal to "Other" stays "Other".
C2_MissingPreserved ==
    RCG_Transformed =>
        \A col \in Range(self.columns) : \A r \in 1..call.arg.rows :
            /\ isna(call.arg.cols[col][r]) => isna(ret.value.cols[col][r])
            /\ call.arg.cols[col][r] = Cell("Other") => ret.value.cols[col][r] = Cell("Other")

\* C3: after fit then transform, every cell of every configured column of the
\* output is in the column's fit-time frequent set, or "Other", or missing; a
\* cell whose value is in the frequent set is returned unchanged; a cell whose
\* value is not in the frequent set comes out as the literal "Other", so no
\* such value other than "Other" itself appears verbatim; the table a fit on
\* [A,A,A,B,B,C] with min_frequency 0.2 leaves transforms [A,B,C,D] into
\* [A,B,Other,Other].
C3_OnlyFrequentOrOther ==
    /\ RCG_Transformed =>
        \A col \in Range(self.columns) : \A r \in 1..call.arg.rows :
            LET in  == call.arg.cols[col][r]
                out == ret.value.cols[col][r]
                F   == self.frequent_categories_[col]
            IN  /\ out \in F \cup {Cell("Other"), NaN}
                /\ in \in F => out = in
                /\ in \notin F => out = Cell("Other")
                /\ (in \notin F /\ in # Cell("Other")) => out # in
    /\ (RCG_Fitted /\ call.arg = ExampleFitTable /\ self.min_frequency = Frac(1, 5)
            /\ self.columns = <<"City">>)
        => self.frequent_categories_["City"] = {Cell("A"), Cell("B")}
    /\ (RCG_Transformed /\ call.arg = ExampleTransformTable /\ self.columns = <<"City">>
            /\ self.frequent_categories_["City"] = {Cell("A"), Cell("B")})
        => ret.value.cols["City"] = <<Cell("A"), Cell("B"), Cell("Other"), Cell("Other")>>

\* C3 witness: the spec's example has run, and a rare value was rewritten
C3_Witness ==
    /\ RCG_Transformed
    /\ call.arg = ExampleTransformTable
    /\ self.min_frequency = Frac(1, 5)
    /\ self.frequent_categories_["City"] = {Cell("A"), Cell("B")}
    /\ ret.value.cols["City"] = <<Cell("A"), Cell("B"), Cell("Other"), Cell("Other")>>

NoMissing(col) == \A i \in 1..Len(col) : ~isna(col[i])

Count(col, v) == Cardinality({i \in 1..Len(col) : col[i] = v})

\* C4, state part: after a fit that returned, for every configured column with
\* no missing cell, a value is in the frequent set iff count / rows >= min_frequency
C4_Inclusive ==
    RCG_Fitted =>
        \A col \in Range(self.columns) :
            LET s == call.arg.cols[col]
                F == self.frequent_categories_[col]
            IN  NoMissing(s) =>
                    /\ F \subseteq Range(s)
                    /\ \A v \in Range(s) :
                           v \in F <=> Count(s, v) * self.min_frequency.den
                                           >= self.min_frequency.num * call.arg.rows

\* C4, step part: fitting the table that was just fitted leaves the same
\* frequent sets
C4_Refit ==
    (RCG_Fitted /\ call'.op = "fit" /\ call'.arg = call.arg /\ ret'.status = "return")
        => self'.frequent_categories_ = self.frequent_categories_

\* C4: RareCategoryGrouper.fit uses an inclusive threshold (v is frequent iff
\* count(v) / row count >= min_frequency on a column without missing cells, a
\* value exactly at the threshold being retained) and fitting the same table
\* twice yields the same frequent set.
C4_InclusiveThreshold == []C4_Inclusive /\ [][C4_Refit]_vars

\* C4 witness: a value whose relative frequency equals min_frequency exactly
\* was retained, beside a value below the threshold that was not
C4_Witness ==
    /\ RCG_Fitted
    /\ \E col \in Range(self.columns) :
           LET s == call.arg.cols[col]
           IN  /\ NoMissing(s)
               /\ \E v \in Range(s) :
                      /\ Count(s, v) * self.min_frequency.den
                             = self.min_frequency.num * call.arg.rows
                      /\ v \in self.frequent_categories_[col]
               /\ \E w \in Range(s) : w \notin self.frequent_categories_[col]

---------------------------------------------------------------------------
(* Claims about OutlierClipper *)

OC_Transformed ==
    cls = "OutlierClipper" /\ call.op = "transform" /\ ret.status = "return"

InRange(c, lower, upper) ==
    /\ ~isna(lower) => lower[1] <= c[1]
    /\ ~isna(upper) => c[1] <= upper[1]

\* C5: after fit then transform, for every fitted column: every non-missing
\* output cell lies in [lower bound, upper bound]; a cell already inside the
\* range is returned unchanged; a cell below the range becomes the lower
\* bound and one above becomes the upper bound; a missing cell stays missing;
\* the row count is that of the input; and transforming the output again
\* returns it unchanged.  (A bound that is NaN, learned from a column without
\* values, is read as no bound.)
C5_ClippedIntoBounds ==
    OC_Transformed =>
        /\ ret.value.rows = call.arg.rows
        /\ \A col \in DOMAIN self.bounds_ :
               LET lower == self.bounds_[col][1]
                   upper == self.bounds_[col][2]
               IN  /\ Len(ret.value.cols[col]) = call.arg.rows
                   /\ \A r \in 1..call.arg.rows :
                       LET in  == call.arg.cols[col][r]
                           out == ret.value.cols[col][r]
                       IN  /\ isna(in) => isna(out)
                           /\ ~isna(in) =>
                               /\ ~isna(out)
                               /\ InRange(out, lower, upper)
                               /\ InRange(in, lower, upper) => out = in
                               /\ (~isna(lower) /\ in[1] < lower[1]) => out = lower
                               /\ (~isna(upper) /\ in[1] > upper[1]) => out = upper
        /\ call.chained => ret.value = call.arg

\* the quantile fractions given at construction satisfy 0 <= lower < upper <= 1
ValidQuantiles(obj) ==
    0 <= obj.lower_quantile /\ obj.lower_quantile < obj.upper_quantile
        /\ obj.upper_quantile <= QUnit

\* C6: an OutlierClipper whose quantile fractions violate
\* 0 <= lower_quantile < upper_quantile <= 1 is rejected at construction or at
\* fit: for such a unit no fit call returns and no bounds are ever stored, so
\* it never transforms with learned bounds.
C6_InvalidQuantilesRejected ==
    (cls = "OutlierClipper" /\ ~ValidQuantiles(self)) =>
        /\ ~(call.op = "fit" /\ ret.status = "return")
        /\ self.bounds_ = EmptyDict

---------------------------------------------------------------------------
(* Claims about AreaFeatureSelector *)

AFS_Called == cls = "AreaFeatureSelector" /\ call.op = "transform"

\* C7: for every table containing all configured area columns, transform
\* returns a table in which, for every row, MainArea is the value of the first
\* column of area_columns (in listed order) that is non-missing in that row,
\* and is missing when all of them are missing; none of the listed columns is
\* in the output; the rows and the other columns are as in the input.
C7_FirstNonMissing ==
    (AFS_Called /\ Range(self.area_columns) \subseteq DOMAIN call.arg.cols) =>
        /\ ret.status = "return"
        /\ ret.value.rows = call.arg.rows
        /\ Range(self.area_columns) \cap DOMAIN ret.value.cols = {}
        /\ DOMAIN ret.value.cols =
               ((DOMAIN call.arg.cols) \ Range(self.area_columns)) \cup {"MainArea"}
        /\ \A c \in (DOMAIN ret.value.cols) \ {"MainArea"} :
               ret.value.cols[c] = call.arg.cols[c]
        /\ Len(ret.value.cols["MainArea"]) = call.arg.rows
        /\ \A r \in 1..call.arg.rows :
               LET n   == Len(self.area_columns)
                   in(i) == call.arg.cols[self.area_columns[i]][r]
                   out == ret.value.cols["MainArea"][r]
               IN  \/ \E i \in 1..n : /\ ~isna(in(i))
                                      /\ \A j \in 1..(i - 1) : isna(in(j))
                                      /\ out = in(i)
                   \/ (\A i \in 1..n : isna(in(i))) /\ isna(out)

\* C7 witness: two rows, the first filled from a later column because the first
\* listed column is missing there, the second missing in every listed column
C7_Witness ==
    /\ AFS_Called
    /\ ret.status = "return"
    /\ self.area_columns = <<"TotalArea", "LivingArea">>
    /\ call.arg.rows = 2
    /\ call.arg.cols["TotalArea"] = <<NaN, NaN>>
    /\ call.arg.cols["LivingArea"] = <<Num(40), NaN>>
    /\ ret.value.cols["MainArea"] = <<Num(40), NaN>>

---------------------------------------------------------------------------
(* Claims about BooleanNormalizer *)

BN_Called == cls = "BooleanNormalizer" /\ call.op = "transform"

\* the cells whose lower-cased string form is "yes", "true" or "1"
TruthyCells ==
    {Cell(PyStr(<<"Y", "e", "s">>)), Cell(PyStr(<<"Y", "E", "S">>)),
     Cell(PyStr(<<"y", "e", "s">>)), Cell(PyStr(<<"T", "r", "u", "e">>)),
     Cell(PyStr(<<"1">>)), Cell(PyBool(TRUE)), Cell(PyInt(1))}

\* the cells whose lower-cased string form is "no", "false" or "0"
FalsyCells ==
    {Cell(PyStr(<<"N", "o">>)), Cell(PyStr(<<"n", "o">>)),
     Cell(PyStr(<<"F", "A", "L", "S", "E">>)), Cell(PyStr(<<"0">>)),
     Cell(PyBool(FALSE)), Cell(PyInt(0))}

---------------------------------------------------------------------------
(* Claims about the stateful units and about every unit *)

Stateful == cls \in {"RareCategoryGrouper", "OutlierClipper"}

\* the fitted state of a stateful unit
FittedState(obj) ==
    IF cls = "RareCategoryGrouper" THEN obj.frequent_categories_ ELSE obj.bounds_

\* the instance a fresh unit of the same configuration is after the one call fit(T)
FreshFit(obj, T) ==
    IF cls = "RareCategoryGrouper"
    THEN RCG_fit(RareCategoryGrouper_init(obj.columns, obj.min_frequency), T).self
    ELSE OC_fit(OutlierClipper_init(obj.columns, obj.lower_quantile, obj.upper_quantile), T).self

\* C1: transform on a stateful unit that was constructed but never fit fails
\* with NotFittedError and returns no table, for every input table (the
\* configured column lists are non-empty).
C1_NotFittedError ==
    (Stateful /\ fits = "none" /\ call.op = "transform") =>
        ret.status = "raise" /\ ret.exc = "NotFittedError"

\* C9: transform is side-effect-free for every unit: a transform call leaves
\* the caller's table, the configuration and the fitted state as they were (so
\* later transforms still use what fit learned), and transforming the table
\* that was just transformed ends the same way.
C9_TransformFrame ==
    [][call'.op = "transform" =>
          /\ self' = self
          /\ X' = call'.arg
          /\ (call.op = "transform" /\ call'.arg = call.arg) => ret' = ret]_vars

\* C9 witness: a fitted stateful unit has transformed a table into a different
\* one
C9_Witness ==
    /\ Stateful
    /\ fits # "none"
    /\ call.op = "transform"
    /\ ret.status = "return"
    /\ FittedState(self) # EmptyDict
    /\ ret.value # call.arg
    /\ X = call.arg

=============================================================================
